---- MODULE Spec2Model ----
(***************************************************************************)
(* AnalogSelectorFilter (src/src/AnalogSelector.h): a hysteresis filter    *)
(* that turns an integer reading into a selector index.  The object's      *)
(* fields are the variables; every public method is an action built from   *)
(* an operator that computes the method on a record of the fields.         *)
(*                                                                         *)
(* Arithmetic is that of the AVR targets of the Arduino core: int and      *)
(* unsigned int are IntBits wide, unsigned arithmetic wraps, and the       *)
(* conversion of an unsigned value to int is two's complement.             *)
(* deadzoneSize, a float in the source, is kept as a count of 1/DzScale    *)
(* units, or NaN; for these fractions the float product of                 *)
(* recalculateWidths truncates to the same integer as the exact product.   *)
(* The conversion of a NaN product to unsigned int is undefined; the       *)
(* conversions of the targets (and of the host build of the source) give   *)
(* NaNWidth.                                                               *)
(***************************************************************************)
EXTENDS Integers, Sequences, FiniteSets, TLC

(* ------------------------------ bounds -------------------------------- *)

\* largest range endpoint given to the constructor and to setRange
MaxVal == 9
\* largest number of positions given to the constructor and setNumPositions
MaxPos == 4

(* ------------------------- program constants -------------------------- *)

\* width of int / unsigned int
IntBits == 16
\* deadzoneSize is stored in units of 1/DzScale
DzScale == 20
\* the class documentation's example: range 0-100, 2 positions, 10% deadzone
DocMin == 0
DocMax == 100
DocPositions == 2
DocDeadzone == 2
\* the float that is not a number, as a value of deadzoneSize
NaN == 9999
\* what the conversion of a NaN deadzone width to unsigned int gives
NaNWidth == 0

UIntMod == 2 ^ IntBits

\* the float comparisons a < b and a > b: false when either side is NaN
fLess(a, b) == a # NaN /\ b # NaN /\ a < b
fGreater(a, b) == a # NaN /\ b # NaN /\ a > b

\* conversion to unsigned int
ToUInt(x) == x % UIntMod

\* conversion of an unsigned int to int
ToInt(u) == IF ToUInt(u) >= UIntMod \div 2 THEN ToUInt(u) - UIntMod ELSE ToUInt(u)

(* ------------------------------- inputs ------------------------------- *)

\* (rMin, rMax) pairs: wide, narrower than the number of positions, collapsed,
\* and two of them reversed
RangeArgs ==
    {<<-2, MaxVal>>, <<MaxVal, -2>>, <<0, MaxVal>>, <<-2, 0>>, <<0, -2>>, <<0, 0>>}
PosArgs == 0 .. MaxPos
DzArgs == {-5, 0, DzScale \div 2, DzScale, DzScale + 10, NaN}
DocReadings == {44, 50, 55, 60}

\* constructor arguments: the general ones and the documented example
CtorArgs ==
    {<<r[1], r[2], n, d>> : r \in RangeArgs, n \in PosArgs, d \in DzArgs}
        \cup {<<DocMin, DocMax, DocPositions, DocDeadzone>>}

\* what the fields the constructor never assigns may hold
\* (edgeLow, currentSelection, edgeHigh): zeroed static storage, or anything
Uninit == {<<0, 0, 0>>, <<-1, MaxPos + 1, MaxVal>>}

(* -------------------------------- state ------------------------------- *)

VARIABLES
    configChanged, rangeMin, rangeMax, numPositions, deadzoneSize,
    selectorWidth, deadzoneWidth,
    edgeLow, currentSelection, edgeHigh,
    op, reading, ret, selBefore, branch, upFrom, script,
    standalone, standaloneRet, samples, evaluations

fields == <<configChanged, rangeMin, rangeMax, numPositions, deadzoneSize,
            selectorWidth, deadzoneWidth, edgeLow, currentSelection, edgeHigh>>
observers == <<op, reading, ret, selBefore, branch, upFrom, script>>
\* beside an AnalogSelector whose member filter the fields are: a standalone
\* AnalogSelectorFilter given the same calls, the index it returned last, the
\* samples taken from analogRead and the evaluations of the member filter
adapter == <<standalone, standaloneRet, samples, evaluations>>
vars == <<fields, observers, adapter>>

\* the object as a record of its fields
self ==
    [configChanged |-> configChanged, rangeMin |-> rangeMin, rangeMax |-> rangeMax,
     numPositions |-> numPositions, deadzoneSize |-> deadzoneSize,
     selectorWidth |-> selectorWidth, deadzoneWidth |-> deadzoneWidth,
     edgeLow |-> edgeLow, currentSelection |-> currentSelection,
     edgeHigh |-> edgeHigh]

(* ------------------------------- setters ------------------------------ *)

setRange(f, rMin, rMax) ==
    LET lo == IF rMax < rMin THEN rMax ELSE rMin
        hi == IF rMax < rMin THEN rMin ELSE rMax
    IN  [f EXCEPT !.rangeMin = lo, !.rangeMax = hi, !.configChanged = TRUE]

\* setNumPositions that also resets the selection
setNumPositions_Reset(f, numPos) ==
    [f EXCEPT !.numPositions = IF numPos = 0 THEN 1 ELSE numPos,
              !.currentSelection = 0,
              !.configChanged = TRUE]

setNumPositions(f, numPos) ==
    [f EXCEPT !.numPositions = IF numPos = 0 THEN 1 ELSE numPos,
              !.configChanged = TRUE]

\* setDeadzone that leaves configChanged alone
setDeadzone_NoFlag(f, dz) ==
    [f EXCEPT !.deadzoneSize = IF fLess(dz, 0) THEN 0
                               ELSE IF fGreater(dz, DzScale) THEN DzScale
                               ELSE dz]

setDeadzone(f, dz) ==
    [f EXCEPT !.deadzoneSize = IF fLess(dz, 0) THEN 0
                               ELSE IF fGreater(dz, DzScale) THEN DzScale ELSE dz,
              !.configChanged = TRUE]

(* -------------------------------- edges ------------------------------- *)

Upper == "Upper"
Lower == "Lower"

\* calculateEdge whose lower edge counts the deadzone below the segment too,
\* so that it meets the upper edge of the segment below
calculateEdge_NoHysteresis(f, i, dir) ==
    LET sum ==
            IF dir = Upper
            THEN ToUInt(f.rangeMin)
                 + ToUInt(f.selectorWidth * ToUInt(i + 1))
                 + ToUInt(f.deadzoneWidth
                          * (IF i # f.numPositions THEN ToUInt(i + 1) ELSE i))
            ELSE ToUInt(f.rangeMin)
                 + ToUInt(f.selectorWidth * i)
                 + ToUInt(f.deadzoneWidth * i)
        edge == ToInt(sum)
    IN  IF edge < f.rangeMin THEN f.rangeMin
        ELSE IF edge > f.rangeMax THEN f.rangeMax
        ELSE edge

\* calculateEdge without the final clamp into the range
calculateEdge_NoClamp(f, i, dir) ==
    ToInt(IF dir = Upper
          THEN ToUInt(f.rangeMin)
               + ToUInt(f.selectorWidth * ToUInt(i + 1))
               + ToUInt(f.deadzoneWidth
                        * (IF i # f.numPositions THEN ToUInt(i + 1) ELSE i))
          ELSE ToUInt(f.rangeMin)
               + ToUInt(f.selectorWidth * i)
               + ToUInt(f.deadzoneWidth * (IF i # 0 THEN i - 1 ELSE i)))

calculateEdge(f, i, dir) ==
    LET sum ==
            IF dir = Upper
            THEN ToUInt(f.rangeMin)
                 + ToUInt(f.selectorWidth * ToUInt(i + 1))
                 + ToUInt(f.deadzoneWidth
                          * (IF i # f.numPositions THEN ToUInt(i + 1) ELSE i))
            ELSE ToUInt(f.rangeMin)
                 + ToUInt(f.selectorWidth * i)
                 + ToUInt(f.deadzoneWidth * (IF i # 0 THEN i - 1 ELSE i))
        edge == ToInt(sum)
    IN  IF edge < f.rangeMin THEN f.rangeMin
        ELSE IF edge > f.rangeMax THEN f.rangeMax
        ELSE edge

(* ------------------------------- widths ------------------------------- *)

\* recalculateWidths that reserves no unit per position for the selectors
recalculateWidths_NoReserve(f) ==
    LET d == f.rangeMax - f.rangeMin
        TotalRange == ToUInt(IF d > 0 THEN d ELSE -d)
        NumDeadzones == ToUInt(f.numPositions - 1)
        MaxDeadzoneWidth ==
            IF NumDeadzones # 0 THEN TotalRange \div NumDeadzones ELSE 0
        dzw == IF f.deadzoneSize = NaN THEN NaNWidth
               ELSE ToUInt((MaxDeadzoneWidth * f.deadzoneSize) \div DzScale)
        SelectorRange == ToUInt(TotalRange - ToUInt(dzw * NumDeadzones))
    IN  [f EXCEPT !.deadzoneWidth = dzw,
                  !.selectorWidth = SelectorRange \div f.numPositions,
                  !.configChanged = FALSE]

\* the object after recalculateWidths()
recalculateWidths(f) ==
    LET d == f.rangeMax - f.rangeMin
        TotalRange == ToUInt(IF d > 0 THEN d ELSE -d)
        DeadzoneRange == ToUInt(TotalRange - f.numPositions)
        NumDeadzones == ToUInt(f.numPositions - 1)
        MaxDeadzoneWidth ==
            IF NumDeadzones # 0 THEN DeadzoneRange \div NumDeadzones ELSE 0
        dzw == IF f.deadzoneSize = NaN THEN NaNWidth
               ELSE ToUInt((MaxDeadzoneWidth * f.deadzoneSize) \div DzScale)
        SelectorRange == ToUInt(TotalRange - ToUInt(dzw * NumDeadzones))
    IN  [f EXCEPT !.deadzoneWidth = dzw,
                  !.selectorWidth = SelectorRange \div f.numPositions,
                  !.configChanged = FALSE]

(* ------------------------------ selection ----------------------------- *)

RECURSIVE scanUp_Strict(_, _, _)
\* scanUp that also passes over a segment whose upper edge the reading equals
scanUp_Strict(f, p, i) ==
    IF i >= ToInt(f.numPositions) THEN f
    ELSE LET UpperEdge == calculateEdge(f, ToUInt(i), Upper)
         IN  IF p >= UpperEdge THEN scanUp_Strict(f, p, i + 1)
             ELSE [f EXCEPT !.currentSelection = ToUInt(i),
                            !.edgeLow = calculateEdge(f, ToUInt(i), Lower),
                            !.edgeHigh = UpperEdge]

RECURSIVE scanUp(_, _, _)
\* the upward loop of calculateSelection, from index i
scanUp(f, p, i) ==
    IF i >= ToInt(f.numPositions) THEN f
    ELSE LET UpperEdge == calculateEdge(f, ToUInt(i), Upper)
         IN  IF p > UpperEdge THEN scanUp(f, p, i + 1)
             ELSE [f EXCEPT !.currentSelection = ToUInt(i),
                            !.edgeLow = calculateEdge(f, ToUInt(i), Lower),
                            !.edgeHigh = UpperEdge]

RECURSIVE scanDown(_, _, _)
\* the downward loop of calculateSelection, from index i
scanDown(f, p, i) ==
    IF i < 0 THEN f
    ELSE LET LowerEdge == calculateEdge(f, ToUInt(i), Lower)
         IN  IF p < LowerEdge THEN scanDown(f, p, i - 1)
             ELSE [f EXCEPT !.currentSelection = ToUInt(i),
                            !.edgeLow = LowerEdge,
                            !.edgeHigh = calculateEdge(f, ToUInt(i), Upper)]

\* clip that lets a reading below the range through
clip_NoLower(f, p) ==
    IF p > f.rangeMax THEN f.rangeMax ELSE p

\* the reading clipped to the range
clip(f, p) ==
    IF p < f.rangeMin THEN f.rangeMin
    ELSE IF p > f.rangeMax THEN f.rangeMax
    ELSE p

\* calculateSelection that always scans from the bottom
calculateSelection_FromBottom(f, p, relative) ==
    scanUp(f, clip(f, p), 0)

\* the object after calculateSelection(p, relative); it returns currentSelection
calculateSelection(f, p, relative) ==
    LET c == clip(f, p)
    IN  IF ~relative \/ c > f.edgeHigh
        THEN scanUp(f, c, IF ~relative THEN 0 ELSE ToInt(f.currentSelection))
        ELSE IF c < f.edgeLow
        THEN scanDown(f, c, ToInt(f.currentSelection))
        ELSE f

\* the object after getPosition(p); it returns currentSelection
getPosition(f, p) ==
    LET relative == ~f.configChanged
        g == IF f.configChanged THEN recalculateWidths(f) ELSE f
    IN  calculateSelection(g, p, relative)

\* the object after construction; raw holds what the unassigned fields held
AnalogSelectorFilter(raw, rMin, rMax, numPos, dz) ==
    getPosition(setDeadzone(setNumPositions(setRange(raw, rMin, rMax), numPos), dz),
                rMin)

(* ------------------------------- actions ------------------------------ *)

\* the storage of an object before its constructor runs; g is what the three
\* fields the constructor may leave unassigned hold
Raw(g) ==
    [configChanged |-> FALSE, rangeMin |-> 0, rangeMax |-> 0,
     numPositions |-> 0, deadzoneSize |-> 0,
     selectorWidth |-> 0, deadzoneWidth |-> 0,
     edgeLow |-> g[1], currentSelection |-> g[2], edgeHigh |-> g[3]]

Store(f) ==
    /\ configChanged' = f.configChanged
    /\ rangeMin' = f.rangeMin
    /\ rangeMax' = f.rangeMax
    /\ numPositions' = f.numPositions
    /\ deadzoneSize' = f.deadzoneSize
    /\ selectorWidth' = f.selectorWidth
    /\ deadzoneWidth' = f.deadzoneWidth
    /\ edgeLow' = f.edgeLow
    /\ currentSelection' = f.currentSelection
    /\ edgeHigh' = f.edgeHigh

\* the readings of the documented scenario
ScriptReadings == <<50, 60, 50, 44>>

\* the readings tried on object f: every one from just below to just above a
\* narrow range, the ends and the documented ones of a wide range
Readings(f) ==
    IF f.rangeMax - f.rangeMin <= MaxVal + 2
    THEN (f.rangeMin - 1) .. (f.rangeMax + 1)
    ELSE {f.rangeMin - 1, f.rangeMin, f.rangeMax, f.rangeMax + 1} \cup DocReadings

\* the branch calculateSelection takes on reading p
branchOf(f, p) ==
    IF f.configChanged THEN "full"
    ELSE IF clip(f, p) > f.edgeHigh THEN "up"
    ELSE IF clip(f, p) < f.edgeLow THEN "down"
    ELSE "none"

Init ==
    \E a \in CtorArgs, g \in Uninit :
        LET raw == [configChanged |-> FALSE, rangeMin |-> 0, rangeMax |-> 0,
                    numPositions |-> 0, deadzoneSize |-> 0,
                    selectorWidth |-> 0, deadzoneWidth |-> 0,
                    edgeLow |-> g[1], currentSelection |-> g[2], edgeHigh |-> g[3]]
            f == AnalogSelectorFilter(raw, a[1], a[2], a[3], a[4])
        IN  /\ configChanged = f.configChanged
            /\ rangeMin = f.rangeMin
            /\ rangeMax = f.rangeMax
            /\ numPositions = f.numPositions
            /\ deadzoneSize = f.deadzoneSize
            /\ selectorWidth = f.selectorWidth
            /\ deadzoneWidth = f.deadzoneWidth
            /\ edgeLow = f.edgeLow
            /\ currentSelection = f.currentSelection
            /\ edgeHigh = f.edgeHigh
            /\ op = "AnalogSelectorFilter"
            /\ reading = a[1]
            /\ ret = f.currentSelection
            /\ selBefore = 0
            /\ branch = "full"
            /\ upFrom = -1
            /\ script = IF a = <<DocMin, DocMax, DocPositions, DocDeadzone>>
                        THEN 0 ELSE -1
            /\ standalone = Raw(<<0, 0, 0>>)
            /\ standaloneRet = 0
            /\ samples = 0
            /\ evaluations = 0

\* a setter call: f is the object after it
Setter(f) ==
    /\ Store(f)
    /\ op' = "setter"
    /\ reading' = 0
    /\ ret' = 0
    /\ selBefore' = 0
    /\ branch' = "none"
    /\ upFrom' = -1
    /\ script' = -1
    /\ UNCHANGED adapter

SetRange(rMin, rMax) ==
    Setter(setRange(self, rMin, rMax))

SetNumPositions(numPos) ==
    Setter(setNumPositions(self, numPos))

SetDeadzone(dz) ==
    Setter(setDeadzone(self, dz))

GetPosition(p) ==
    LET f == getPosition(self, p)
    IN  /\ Store(f)
        /\ op' = "getPosition"
        /\ reading' = p
        /\ ret' = f.currentSelection
        /\ selBefore' = currentSelection
        /\ branch' = branchOf(self, p)
        /\ upFrom' = IF f.currentSelection = currentSelection + 1
                        /\ clip(f, p) > calculateEdge(f, currentSelection, Upper)
                     THEN currentSelection
                     ELSE IF f.currentSelection = currentSelection /\ ~configChanged
                     THEN upFrom
                     ELSE -1
        /\ script' = IF script >= 0 /\ script < Len(ScriptReadings)
                        /\ p = ScriptReadings[script + 1]
                     THEN script + 1 ELSE -1
        /\ UNCHANGED adapter

Next ==
    \/ \E r \in RangeArgs : SetRange(r[1], r[2])
    \/ \E n \in PosArgs : SetNumPositions(n)
    \/ \E dz \in DzArgs : SetDeadzone(dz)
    \/ \E p \in Readings(self) : GetPosition(p)

Spec == Init /\ [][Next]_vars

(* ------------------------------- adapter ------------------------------ *)
(* AnalogSelector as built for Arduino (ARDUINO defined): the fields are   *)
(* those of its member filter, and analogRead may give any reading.        *)

\* most samples taken from analogRead in one behaviour
MaxSamples == 3

\* the deadzone 0.2 the adapter's constructor gives its filter
AdapterDeadzone == DzScale \div 5

\* constructor arguments numPos, rMin, rMax (the pin does not reach the filter)
AdapterArgs == {<<n, r[1], r[2]>> : n \in PosArgs, r \in RangeArgs}

\* AnalogSelector::AnalogSelector, and beside it the standalone filter
AdapterInit ==
    \E a \in AdapterArgs, g \in Uninit, h \in Uninit :
        LET f == AnalogSelectorFilter(Raw(g), a[2], a[3], a[1], AdapterDeadzone)
            s == AnalogSelectorFilter(Raw(h), a[2], a[3], a[1], AdapterDeadzone)
        IN  /\ configChanged = f.configChanged
            /\ rangeMin = f.rangeMin
            /\ rangeMax = f.rangeMax
            /\ numPositions = f.numPositions
            /\ deadzoneSize = f.deadzoneSize
            /\ selectorWidth = f.selectorWidth
            /\ deadzoneWidth = f.deadzoneWidth
            /\ edgeLow = f.edgeLow
            /\ currentSelection = f.currentSelection
            /\ edgeHigh = f.edgeHigh
            /\ op = "AnalogSelector"
            /\ reading = a[2]
            /\ ret = f.currentSelection
            /\ selBefore = 0
            /\ branch = "full"
            /\ upFrom = -1
            /\ script = -1
            /\ standalone = s
            /\ standaloneRet = s.currentSelection
            /\ samples = 0
            /\ evaluations = 0

\* AnalogSelector::getPosition with analogRead giving sample: one reading,
\* forwarded to the member filter; the standalone filter is given the same
AdapterEvaluate(sample, name) ==
    LET f == getPosition(self, sample)
        s == getPosition(standalone, sample)
    IN  /\ samples < MaxSamples
        /\ Store(f)
        /\ op' = name
        /\ reading' = sample
        /\ ret' = f.currentSelection
        /\ selBefore' = currentSelection
        /\ branch' = branchOf(self, sample)
        /\ upFrom' = -1
        /\ script' = -1
        /\ standalone' = s
        /\ standaloneRet' = s.currentSelection
        /\ samples' = samples + 1
        /\ evaluations' = evaluations + 1

\* AnalogSelector::begin: pinMode, then getPosition
Begin ==
    \E sample \in Readings(self) : AdapterEvaluate(sample, "begin")

AdapterGetPosition ==
    \E sample \in Readings(self) : AdapterEvaluate(sample, "AnalogSelector::getPosition")

\* an adapter setter: f is the member filter after it, s the standalone one
AdapterSetter(f, s) ==
    /\ Store(f)
    /\ op' = "setter"
    /\ reading' = 0
    /\ ret' = 0
    /\ selBefore' = 0
    /\ branch' = "none"
    /\ upFrom' = -1
    /\ script' = -1
    /\ standalone' = s
    /\ UNCHANGED <<standaloneRet, samples, evaluations>>

AdapterSetRange(rMin, rMax) ==
    AdapterSetter(setRange(self, rMin, rMax), setRange(standalone, rMin, rMax))

AdapterSetNumPositions(numPos) ==
    AdapterSetter(setNumPositions(self, numPos), setNumPositions(standalone, numPos))

AdapterSetDeadzone(dz) ==
    AdapterSetter(setDeadzone(self, dz), setDeadzone(standalone, dz))

AdapterNext ==
    \/ Begin
    \/ AdapterGetPosition
    \/ \E r \in RangeArgs : AdapterSetRange(r[1], r[2])
    \/ \E n \in PosArgs : AdapterSetNumPositions(n)
    \/ \E dz \in DzArgs : AdapterSetDeadzone(dz)

SpecAdapter == AdapterInit /\ [][AdapterNext]_vars

(* ------------------------------- claims ------------------------------- *)

\* the configuration of the class documentation's example, widths computed
DocConfig ==
    /\ rangeMin = DocMin
    /\ rangeMax = DocMax
    /\ numPositions = DocPositions
    /\ deadzoneSize = DocDeadzone
    /\ ~configChanged

\* the clipped reading of the evaluation that led to this state
clipped == clip(self, reading)

\* the indices whose upper edge is at or above the clipped reading
Candidates == {i \in 0 .. numPositions - 1 : calculateEdge(self, i, Upper) >= clipped}

\* C1: every getPosition returns an index k with 0 <= k <= numPositions - 1
\* for the numPositions in force at that call, and currentSelection is that k.
C1_IndexInRange ==
    op = "getPosition" => ret \in 0 .. numPositions - 1 /\ currentSelection = ret

\* C2: hysteresis with no setter call in between.  Once a getPosition has
\* moved the selection from i to i+1 because the reading exceeded
\* upperEdge(i), upperEdge(i) itself lies in [lowerEdge(i+1), upperEdge(i+1)],
\* every later getPosition whose clipped reading lies in that interval still
\* returns i+1, and one that returns i had a reading below lowerEdge(i+1).
\* The documented scenario (range 0..100, 2 positions, deadzone 0.1,
\* readings 50, 60, 50, 44 from construction) returns 0, 1, 1, 0.
C2_Step ==
    (upFrom >= 0 /\ op' = "getPosition") =>
        LET c == clip(self, reading')
            lo == calculateEdge(self, upFrom + 1, Lower)
            hi == calculateEdge(self, upFrom + 1, Upper)
            ue == calculateEdge(self, upFrom, Upper)
        IN  /\ currentSelection = upFrom + 1
            /\ lo <= ue /\ ue <= hi
            /\ (lo <= c /\ c <= hi) => ret' = upFrom + 1
            /\ ret' = upFrom => c < lo

C2_Scenario ==
    /\ script = 1 => ret = 0
    /\ script = 2 => ret = 1
    /\ script = 3 => ret = 1
    /\ script = 4 => ret = 0

C2_Hysteresis == [][C2_Step]_vars /\ []C2_Scenario

\* C2 witness: after a move up from i, a reading of exactly upperEdge(i),
\* inside the deadzone, was evaluated and the selection stayed i+1.
C2_Witness ==
    /\ op = "getPosition" /\ upFrom >= 0 /\ branch = "none"
    /\ ret = upFrom + 1
    /\ reading = calculateEdge(self, upFrom, Upper)
    /\ reading > calculateEdge(self, upFrom + 1, Lower)

\* C3: a getPosition made with no setter call since the previous evaluation
\* and whose clipped reading lies within [edgeLow, edgeHigh] leaves
\* currentSelection, edgeLow and edgeHigh unchanged and returns the index
\* returned before.
C3_Step ==
    (/\ ~configChanged
     /\ op' = "getPosition"
     /\ edgeLow <= clip(self, reading')
     /\ clip(self, reading') <= edgeHigh)
    => /\ currentSelection' = currentSelection
       /\ edgeLow' = edgeLow
       /\ edgeHigh' = edgeHigh
       /\ ret' = ret

C3_NoChangeWithoutMovement == [][C3_Step]_vars

\* C3 witness: a reading strictly inside the bounds, other than the one
\* before, was evaluated on a selection above 0 and nothing moved.
C3_Witness ==
    /\ op = "getPosition" /\ branch = "none"
    /\ ret = selBefore /\ ret > 0 /\ ret < numPositions
    /\ edgeLow = calculateEdge(self, ret, Lower)
    /\ edgeHigh = calculateEdge(self, ret, Upper)
    /\ edgeLow < reading /\ reading < edgeHigh

\* the largest distance outside the range that C4 tries
MaxK == 3

\* C4: from any state of the filter, dirty or not, getPosition(rangeMin - K)
\* returns the same index and leaves the same state as getPosition(rangeMin),
\* and getPosition(rangeMax + K) the same as getPosition(rangeMax).
C4_Clamping ==
    \A K \in 1 .. MaxK :
        /\ getPosition(self, rangeMin - K) = getPosition(self, rangeMin)
        /\ getPosition(self, rangeMax + K) = getPosition(self, rangeMax)

\* C4 witness: a reading below the range was evaluated and took the
\* selection down to index 0, as a reading of rangeMin does.
C4_Witness ==
    /\ op = "getPosition" /\ reading < rangeMin
    /\ branch = "down" /\ selBefore > 0 /\ ret = 0

\* C5: in the documented example (range 0..100, 2 positions, deadzone 0.1),
\* while the selection is 0 every reading <= 55 keeps 0 and only a reading
\* above 55 switches to 1; while it is 1 every reading >= 45 keeps 1 and only
\* a reading below 45 switches to 0.
C5_Step ==
    (DocConfig /\ op' = "getPosition") =>
        /\ currentSelection = 0 => (ret' = 1 <=> reading' > 55)
        /\ currentSelection = 0 => ret' \in {0, 1}
        /\ currentSelection = 1 => (ret' = 0 <=> reading' < 45)
        /\ currentSelection = 1 => ret' \in {0, 1}

C5_DocThresholds == [][C5_Step]_vars

\* C6: after any non-empty sequence of setter calls, the next getPosition
\* returns the lowest index i in 0..numPositions-1 whose upper edge under the
\* new configuration is >= the clipped reading.
C6_FullScan ==
    (op = "getPosition" /\ branch = "full") =>
        /\ Candidates # {}
        /\ \A i \in Candidates : ret <= i
        /\ ret \in Candidates

\* C7: after construction with any arguments, a reversed range included,
\* currentSelection is 0, edgeLow and edgeHigh are the edges of segment 0 and
\* configChanged is false.
C7_InitialSelection ==
    op = "AnalogSelectorFilter" =>
        /\ currentSelection = 0
        /\ edgeLow = calculateEdge(self, 0, Lower)
        /\ edgeHigh = calculateEdge(self, 0, Upper)
        /\ ~configChanged

\* C8: in every reachable state rangeMin <= rangeMax, numPositions >= 1 and
\* 0 <= deadzoneSize <= 1; setRange(a, b) stores (min(a,b), max(a,b)),
\* setNumPositions(0) stores 1 and setDeadzone(d) stores d clamped into
\* [0, 1], for any argument.
C8_Normalized ==
    /\ rangeMin <= rangeMax
    /\ numPositions >= 1
    /\ deadzoneSize \in 0 .. DzScale
    /\ \A r \in RangeArgs :
          LET f == setRange(self, r[1], r[2])
          IN  /\ f.rangeMin = (IF r[1] <= r[2] THEN r[1] ELSE r[2])
              /\ f.rangeMax = (IF r[1] <= r[2] THEN r[2] ELSE r[1])
    /\ setNumPositions(self, 0).numPositions = 1
    /\ \A d \in DzArgs : setDeadzone(self, d).deadzoneSize \in 0 .. DzScale

\* C9: whenever numPositions is 1, every getPosition returns 0, for every
\* reading, every range and every deadzone fraction.
C9_SinglePosition ==
    (op = "getPosition" /\ numPositions = 1 /\ deadzoneSize \in 0 .. DzScale)
        => ret = 0

\* C9 witness: with one position left after a selection above 0, a reading
\* at the top of a non-empty range was evaluated and 0 returned.
C9_Witness ==
    /\ op = "getPosition" /\ numPositions = 1
    /\ selBefore > 0 /\ rangeMin < rangeMax /\ reading >= rangeMax
    /\ ret = 0

\* C10: whenever rangeMin = rangeMax, every getPosition returns 0, for every
\* reading, every numPositions >= 1 and every deadzone fraction in [0, 1].
C10_CollapsedRange ==
    (op = "getPosition" /\ rangeMin = rangeMax /\ deadzoneSize \in 0 .. DzScale)
        => ret = 0

\* C10 witness: on a collapsed range with several positions and a deadzone,
\* after a selection above 0, a reading was evaluated and 0 returned.
C10_Witness ==
    /\ op = "getPosition" /\ rangeMin = rangeMax
    /\ numPositions > 1 /\ deadzoneSize \in 1 .. DzScale /\ selBefore > 0
    /\ ret = 0

\* C11: every index the adapter returns from begin or getPosition is the one
\* a standalone filter built with (rMin, rMax, numPos, 0.2) and given the same
\* setter calls and samples returns, and each of the two calls takes exactly
\* one sample and makes exactly one evaluation.
C11_Calls == {"begin", "AnalogSelector::getPosition"}

C11_Step ==
    op' \in C11_Calls => samples' = samples + 1 /\ evaluations' = evaluations + 1

C11_PassThrough ==
    /\ [](op \in C11_Calls => ret = standaloneRet)
    /\ [][C11_Step]_vars

\* C12: a setter call sets configChanged and changes only its own
\* configuration fields: selectorWidth, deadzoneWidth, currentSelection,
\* edgeLow and edgeHigh and the configuration fields of the other setters are
\* what they were before the call.
C12_Step ==
    op' = "setter" =>
        /\ configChanged'
        /\ UNCHANGED <<selectorWidth, deadzoneWidth, currentSelection, edgeLow, edgeHigh>>
        /\ \/ UNCHANGED <<numPositions, deadzoneSize>>
           \/ UNCHANGED <<rangeMin, rangeMax, deadzoneSize>>
           \/ UNCHANGED <<rangeMin, rangeMax, numPositions>>

C12_SettersOnlyConfigure == [][C12_Step]_vars

\* a setter has left widths and bounds of the configuration before it
C12_Witness ==
    /\ op = "setter"
    /\ configChanged
    /\ currentSelection > 0
    /\ currentSelection < numPositions
    /\ selectorWidth # recalculateWidths(self).selectorWidth
    /\ edgeHigh > rangeMax

\* C13: configChanged is true after every setter call and false after the
\* constructor and after every getPosition, and whenever it is false
\* selectorWidth and deadzoneWidth are what recalculateWidths gives for the
\* present rangeMin, rangeMax, numPositions and deadzoneSize.
C13_DirtyFlagCoherence ==
    /\ op = "setter" => configChanged
    /\ op \in {"AnalogSelectorFilter", "getPosition"} => ~configChanged
    /\ ~configChanged =>
            /\ selectorWidth = recalculateWidths(self).selectorWidth
            /\ deadzoneWidth = recalculateWidths(self).deadzoneWidth

\* a getPosition that followed a setter and recomputed non-zero widths
C13_Witness ==
    /\ op = "getPosition"
    /\ branch = "full"
    /\ ~configChanged
    /\ deadzoneWidth > 0
    /\ selectorWidth > 0
    /\ ret > 0

\* C14: after every getPosition edgeLow and edgeHigh are the lower and upper
\* edge of currentSelection under the present configuration and the clipped
\* reading lies within them: every scan finds a segment.
C14_StickyBounds ==
    op = "getPosition" =>
        /\ edgeLow = calculateEdge(self, currentSelection, Lower)
        /\ edgeHigh = calculateEdge(self, currentSelection, Upper)
        /\ edgeLow <= clipped
        /\ clipped <= edgeHigh

\* C15: a getPosition with configChanged false and clipped reading r returns,
\* when r > edgeHigh, the smallest j >= currentSelection whose upper edge is
\* at or above r, and when r < edgeLow, the largest j <= currentSelection
\* whose lower edge is at or below r; so the selection does not decrease on a
\* reading above edgeHigh, does not increase on one below edgeLow, and stays
\* when the reading is within [edgeLow, edgeHigh].
C15_Above(r) ==
    {j \in currentSelection .. numPositions - 1 : calculateEdge(self, j, Upper) >= r}

C15_Below(r) ==
    {j \in 0 .. currentSelection : calculateEdge(self, j, Lower) <= r}

C15_Step ==
    (~configChanged /\ op' = "getPosition") =>
        LET r == clip(self, reading')
        IN  /\ r > edgeHigh =>
                    /\ ret' \in C15_Above(r)
                    /\ \A j \in C15_Above(r) : ret' <= j
                    /\ ret' >= currentSelection
            /\ (r <= edgeHigh /\ r < edgeLow) =>
                    /\ ret' \in C15_Below(r)
                    /\ \A j \in C15_Below(r) : ret' >= j
                    /\ ret' <= currentSelection
            /\ (edgeLow <= r /\ r <= edgeHigh) => ret' = currentSelection

C15_RelativeScan == [][C15_Step]_vars

\* C16: with the widths of the present configuration (a deadzone fraction
\* within [0, 1]) every index i below numPositions has
\* rangeMin <= lower edge <= upper edge <= rangeMax, the upper edge of i is at
\* most the lower edge of i + 1 plus deadzoneWidth, and lower and upper edges
\* do not decrease from i to i + 1.
C16_MonotonicEdges ==
    (~configChanged /\ deadzoneSize \in 0 .. DzScale) =>
        \A i \in 0 .. numPositions - 1 :
            LET lo == calculateEdge(self, i, Lower)
                hi == calculateEdge(self, i, Upper)
            IN  /\ rangeMin <= lo
                /\ lo <= hi
                /\ hi <= rangeMax
                /\ i + 1 < numPositions =>
                        /\ hi <= calculateEdge(self, i + 1, Lower) + deadzoneWidth
                        /\ lo <= calculateEdge(self, i + 1, Lower)
                        /\ hi <= calculateEdge(self, i + 1, Upper)

\* C17: the upper edge of every index i below numPositions is
\* rangeMin + selectorWidth * (i + 1) + deadzoneWidth * m clamped into
\* [rangeMin, rangeMax], with m = i + 1 for an index that is not the last and
\* m = i for the last index, numPositions - 1.
C17_Formula(i) ==
    LET m == IF i # numPositions - 1 THEN i + 1 ELSE i
        edge == ToInt(ToUInt(rangeMin) + ToUInt(selectorWidth * (i + 1))
                      + ToUInt(deadzoneWidth * m))
    IN  IF edge < rangeMin THEN rangeMin
        ELSE IF edge > rangeMax THEN rangeMax
        ELSE edge

C17_UpperEdgeFormula ==
    (~configChanged /\ deadzoneSize \in 0 .. DzScale) =>
        \A i \in 0 .. numPositions - 1 :
            calculateEdge(self, i, Upper) = C17_Formula(i)

C19_DegenerateWidths ==
    (rangeMax - rangeMin < numPositions /\ deadzoneSize \in 0 .. DzScale) =>
        LET f == recalculateWidths(self)
        IN  /\ f.selectorWidth * numPositions + f.deadzoneWidth * (numPositions - 1)
                    <= rangeMax - rangeMin
            /\ rangeMin = rangeMax => f.selectorWidth = 0 /\ f.deadzoneWidth = 0

\* C20: with a range of at least numPositions units, a getPosition whose
\* clipped reading lies above the upper edge of index i - 1 (if there is one)
\* and below the lower edge of index i + 1 (if there is one) returns i,
\* whatever the selection was before and whichever scan was made; so a
\* reading of rangeMin returns 0 and a reading of rangeMax returns
\* numPositions - 1.
C20_Outside(i) ==
    /\ i > 0 => calculateEdge(self, i - 1, Upper) < clipped
    /\ i < numPositions - 1 => clipped < calculateEdge(self, i + 1, Lower)

C20_PathIndependence ==
    (/\ op = "getPosition"
     /\ rangeMax - rangeMin >= numPositions
     /\ deadzoneSize \in 0 .. DzScale) =>
        /\ \A i \in 0 .. numPositions - 1 : C20_Outside(i) => ret = i
        /\ clipped = rangeMin => ret = 0
        /\ clipped = rangeMax => ret = numPositions - 1

====
